---------------------------- MODULE Spec2Model ----------------------------
(***************************************************************************)
(* carbon: a terminal job runner that downloads videos with an external    *)
(* fetcher (yt-dlp) and optionally transcodes them (ffmpeg).               *)
(*                                                                         *)
(* The model covers the state store (models.rs AppState), the main loop    *)
(* of app.rs (update application, event handling, process_queue), the      *)
(* pipeline task spawned by queue.rs JobQueue::start_job, and the download *)
(* and convert phases of downloader.rs / converter.rs with their detached  *)
(* output-reader tasks.                                                    *)
(*                                                                         *)
(* Representation.  Option<T> is a sequence of length <= 1.  A String is a *)
(* sequence of tokens (so that format!() is concatenation).  An f64        *)
(* progress value is a fraction [num, den] in lowest terms.  A Uuid is a   *)
(* natural number drawn from a fresh counter.                              *)
(***************************************************************************)
EXTENDS Integers, Sequences, FiniteSets, TLC

\* ------------------------------------------------------------------ bounds
\* Specification Spec
MaxJobs == 1          \* jobs ever submitted
MaxTasks == 1         \* pipeline tasks ever spawned by start_job
MaxInput == 1         \* longest input buffer
MaxLines == 1         \* stdout lines one output reader gets to read
MaxPending == 2       \* updates waiting in the channel when a task sends
\* Specification SpecQueue
QueueJobs == 2
QueueTasks == 2
QueuePending == 1
\* Both
MaxConcurrent == 2    \* largest configured max_concurrent_downloads

\* --------------------------------------------------------------- constants
Chars == {"a", "b"}
Whitespace == {" ", "\n", "\r"}
PasteTexts == { <<" ", "a", "\n">>, <<"\n">> }

None == << >>
Some(x) == << x >>

\* Config::default().default_quality
default_quality == "best"

\* f64 values that occur, as fractions in lowest terms
Frac(n, d) == [num |-> n, den |-> d]
P0 == Frac(0, 1)
P100 == Frac(100, 1)

VARIABLES
    jobs,             \* AppState.jobs: Vec<Job>
    selected_index,   \* AppState.selected_index
    input_buffer,     \* AppState.input_buffer
    next_id,          \* the next fresh Uuid
    max_concurrent,   \* Config.max_concurrent_downloads
    auto_convert,     \* Config.auto_convert
    main_pc,          \* position of App::run's main loop
    job_updates,      \* the unbounded update channel (update_tx -> job_update_rx)
    tasks,            \* the pipeline tasks spawned by start_job, in spawn order
    permits,          \* the semaphore's available permits
    temp_dir,         \* the files under <output_directory>/.temp
    limit,            \* the bounds of the run being explored (never changes)
    selected_quality  \* AppState.selected_quality

vars == << jobs, selected_index, input_buffer, next_id, max_concurrent,
           auto_convert, main_pc, job_updates, tasks, permits, temp_dir, limit,
           selected_quality >>

store == << jobs, selected_index, input_buffer >>

\* ------------------------------------------------------------- models.rs
\* Mutant: Converting is not counted as active.
is_active_DownloadingOnly(status) == status = "Downloading"

is_active(status) == status \in {"Downloading", "Converting"}

\* Mutant: a job that is still converting already counts as complete.
is_complete_OrConverting(status) == status \in {"Complete", "Converting"}

is_complete(status) == status = "Complete"

is_failed(status) == status = "Failed"

\* Mutant: the new job's title is preset to its url.
NewJob_TitleFromUrl(id, url) ==
    [ id |-> id, url |-> url, title |-> Some(url), status |-> "Queued",
      progress |-> P0, speed |-> None, eta |-> None, error |-> None,
      output_path |-> None, temp_path |-> None ]

NewJob(id, url) ==
    [ id |-> id, url |-> url, title |-> None, status |-> "Queued",
      progress |-> P0, speed |-> None, eta |-> None, error |-> None,
      output_path |-> None, temp_path |-> None ]

has_jobs == jobs # << >>

active_jobs_count ==
    Cardinality({ i \in 1..Len(jobs) : is_active(jobs[i].status) })

queued_jobs_count ==
    Cardinality({ i \in 1..Len(jobs) : jobs[i].status = "Queued" })

completed_jobs_count ==
    Cardinality({ i \in 1..Len(jobs) : is_complete(jobs[i].status) })

failed_jobs_count ==
    Cardinality({ i \in 1..Len(jobs) : is_failed(jobs[i].status) })

\* Mutant: Vec::swap_remove(index), the last element takes the place of the
\* removed one.
VecRemove_SwapRemove(v, index) ==
    [ k \in 1..(Len(v) - 1) |-> IF k = index + 1 THEN v[Len(v)] ELSE v[k] ]

\* Vec::remove(index): the elements after index shift left.  Indices here
\* are 0-based as in the source; sequences are 1-based.
VecRemove(v, index) ==
    [ k \in 1..(Len(v) - 1) |-> IF k <= index THEN v[k] ELSE v[k + 1] ]

\* Mutant: the selection is not moved back when it falls off the end.
remove_job_NoClamp(js, sel, index) ==
    IF index < Len(js) THEN << VecRemove(js, index), sel >> ELSE << js, sel >>

\* AppState::remove_job: <<jobs', selected_index'>>
remove_job(js, sel, index) ==
    IF index < Len(js)
    THEN LET js2 == VecRemove(js, index)
         IN  << js2, IF sel >= Len(js2) /\ sel > 0 THEN Len(js2) - 1 ELSE sel >>
    ELSE << js, sel >>

\* AppState::get_job_by_id_mut: the 1-based position of the first job with
\* this id, 0 for Option::None.
get_job_by_id_mut(js, id) ==
    IF \E i \in 1..Len(js) : js[i].id = id
    THEN CHOOSE i \in 1..Len(js) :
            js[i].id = id /\ \A k \in 1..(i - 1) : js[k].id # id
    ELSE 0

\* ----------------------------------------------------------------- app.rs
\* Mutant: the Progress arm also resets the ETA.
SetField_ProgressClearsEta(job, update) ==
    CASE update.kind = "Status"     -> [job EXCEPT !.status = update.val]
      [] update.kind = "Progress"   -> [job EXCEPT !.progress = update.val,
                                                   !.eta = None]
      [] update.kind = "Speed"      -> [job EXCEPT !.speed = Some(update.val)]
      [] update.kind = "Eta"        -> [job EXCEPT !.eta = Some(update.val)]
      [] update.kind = "Title"      -> [job EXCEPT !.title = Some(update.val)]
      [] update.kind = "Error"      -> [job EXCEPT !.error = Some(update.val)]
      [] update.kind = "TempPath"   -> [job EXCEPT !.temp_path = Some(update.val)]
      [] update.kind = "OutputPath" -> [job EXCEPT !.output_path = Some(update.val)]

\* The match of apply_job_update on one job.
SetField(job, update) ==
    CASE update.kind = "Status"     -> [job EXCEPT !.status = update.val]
      [] update.kind = "Progress"   -> [job EXCEPT !.progress = update.val]
      [] update.kind = "Speed"      -> [job EXCEPT !.speed = Some(update.val)]
      [] update.kind = "Eta"        -> [job EXCEPT !.eta = Some(update.val)]
      [] update.kind = "Title"      -> [job EXCEPT !.title = Some(update.val)]
      [] update.kind = "Error"      -> [job EXCEPT !.error = Some(update.val)]
      [] update.kind = "TempPath"   -> [job EXCEPT !.temp_path = Some(update.val)]
      [] update.kind = "OutputPath" -> [job EXCEPT !.output_path = Some(update.val)]

\* Mutant: an update for an unknown id inserts the job (upsert).
ApplyUpdate_Upsert(js, job_id, update) ==
    LET i == get_job_by_id_mut(js, job_id)
    IN  IF i = 0 THEN Append(js, SetField(NewJob(job_id, << >>), update))
        ELSE [js EXCEPT ![i] = SetField(js[i], update)]

\* App::apply_job_update on the job list.
ApplyUpdate(js, job_id, update) ==
    LET i == get_job_by_id_mut(js, job_id)
    IN  IF i = 0 THEN js ELSE [js EXCEPT ![i] = SetField(js[i], update)]

Statuses == {"Queued", "Downloading", "Converting", "Complete", "Failed"}

TypeOK ==
    /\ selected_index \in Nat
    /\ permits \in 0..max_concurrent
    /\ main_pc \in {"updates", "events", "queue", "quit"}
    /\ \A i \in 1..Len(jobs) : jobs[i].status \in Statuses
    /\ Len(input_buffer) <= limit.input
    /\ next_id <= limit.jobs + 1
    /\ Len(tasks) <= limit.tasks

InitProgram ==
    /\ jobs = << >>
    /\ selected_index = 0
    /\ input_buffer = << >>
    /\ next_id = 1
    /\ max_concurrent \in 1..MaxConcurrent
    /\ auto_convert \in BOOLEAN
    /\ main_pc = "updates"
    /\ job_updates = << >>
    /\ tasks = << >>
    /\ permits = max_concurrent
    /\ temp_dir = {}


\* ------------------------------------------------- app.rs: handle_event
\* str::trim on a token sequence
RECURSIVE TrimStart(_)
TrimStart(s) ==
    IF s # << >> /\ Head(s) \in Whitespace THEN TrimStart(Tail(s)) ELSE s

RECURSIVE TrimEnd(_)
TrimEnd(s) ==
    IF s # << >> /\ s[Len(s)] \in Whitespace
    THEN TrimEnd(SubSeq(s, 1, Len(s) - 1))
    ELSE s

\* text.trim().replace('\n', "").replace('\r', "")
CleanText(text) ==
    SelectSeq(TrimEnd(TrimStart(text)), LAMBDA c : c \notin {"\n", "\r"})

InputChar ==
    /\ main_pc = "events"
    /\ Len(input_buffer) < limit.input
    /\ \E c \in limit.chars : input_buffer' = Append(input_buffer, c)
    /\ UNCHANGED << jobs, selected_index, next_id, max_concurrent, auto_convert,
                    main_pc, job_updates, tasks, permits, temp_dir, limit,
                    selected_quality >>

InputBackspace ==
    /\ main_pc = "events"
    /\ input_buffer' = IF input_buffer = << >> THEN << >>
                       ELSE SubSeq(input_buffer, 1, Len(input_buffer) - 1)
    /\ UNCHANGED << jobs, selected_index, next_id, max_concurrent, auto_convert,
                    main_pc, job_updates, tasks, permits, temp_dir, limit,
                    selected_quality >>

InputPaste ==
    /\ main_pc = "events"
    /\ \E text \in PasteTexts :
          /\ Len(input_buffer) + Len(CleanText(text)) <= limit.input
          /\ input_buffer' = input_buffer \o CleanText(text)
    /\ UNCHANGED << jobs, selected_index, next_id, max_concurrent, auto_convert,
                    main_pc, job_updates, tasks, permits, temp_dir, limit,
                    selected_quality >>

ClearInput ==
    /\ main_pc = "events"
    /\ input_buffer' = << >>
    /\ UNCHANGED << jobs, selected_index, next_id, max_concurrent, auto_convert,
                    main_pc, job_updates, tasks, permits, temp_dir, limit,
                    selected_quality >>

SubmitUrl ==
    /\ main_pc = "events"
    /\ IF input_buffer # << >>
       THEN /\ next_id <= limit.jobs
            /\ jobs' = Append(jobs, NewJob(next_id, input_buffer))
            /\ next_id' = next_id + 1
            /\ input_buffer' = << >>
       ELSE UNCHANGED << jobs, next_id, input_buffer >>
    /\ UNCHANGED << selected_index, max_concurrent, auto_convert,
                    main_pc, job_updates, tasks, permits, temp_dir, limit,
                    selected_quality >>

DeleteJob ==
    /\ main_pc = "events"
    /\ IF jobs # << >>
       THEN LET index == selected_index
                job == jobs[index + 1]
            IN  IF ~ is_active(job.status)
                THEN /\ jobs' = remove_job(jobs, selected_index, index)[1]
                     /\ selected_index' = remove_job(jobs, selected_index, index)[2]
                ELSE UNCHANGED << jobs, selected_index >>
       ELSE UNCHANGED << jobs, selected_index >>
    /\ UNCHANGED << input_buffer, next_id, max_concurrent, auto_convert,
                    main_pc, job_updates, tasks, permits, temp_dir, limit,
                    selected_quality >>

MoveUp ==
    /\ main_pc = "events"
    /\ selected_index' = IF selected_index > 0 THEN selected_index - 1
                         ELSE selected_index
    /\ UNCHANGED << jobs, input_buffer, next_id, max_concurrent, auto_convert,
                    main_pc, job_updates, tasks, permits, temp_dir, limit,
                    selected_quality >>

\* usize::saturating_sub
saturating_sub(a, b) == IF a >= b THEN a - b ELSE 0

MoveDown ==
    /\ main_pc = "events"
    /\ selected_index' = IF selected_index < saturating_sub(Len(jobs), 1)
                         THEN selected_index + 1
                         ELSE selected_index
    /\ UNCHANGED << jobs, input_buffer, next_id, max_concurrent, auto_convert,
                    main_pc, job_updates, tasks, permits, temp_dir, limit,
                    selected_quality >>

\* AppEvent::Quit: handle_event returns false and run() returns.
Quit ==
    /\ main_pc = "events"
    /\ main_pc' = "quit"
    /\ UNCHANGED << jobs, selected_index, input_buffer, next_id, max_concurrent,
                    auto_convert, job_updates, tasks, permits, temp_dir,
                    limit, selected_quality >>

\* ---------------------------------------------------- app.rs: main loop
\* One iteration of `while let Ok(..) = job_update_rx.try_recv()`.
ApplyJobUpdate ==
    /\ main_pc = "updates"
    /\ job_updates # << >>
    /\ jobs' = ApplyUpdate(jobs, Head(job_updates).job_id, Head(job_updates))
    /\ job_updates' = Tail(job_updates)
    /\ UNCHANGED << selected_index, input_buffer, next_id, max_concurrent,
                    auto_convert, main_pc, tasks, permits, temp_dir, limit,
                    selected_quality >>

\* try_recv finds the update channel empty: on to the events.
UpdatesDrained ==
    /\ main_pc = "updates"
    /\ job_updates = << >>
    /\ main_pc' = "events"
    /\ UNCHANGED << jobs, selected_index, input_buffer, next_id, max_concurrent,
                    auto_convert, job_updates, tasks, permits, temp_dir,
                    limit, selected_quality >>

\* try_recv finds the event channel empty: render, then process_queue.
EventsDrained ==
    /\ main_pc = "events"
    /\ main_pc' = "queue"
    /\ UNCHANGED << jobs, selected_index, input_buffer, next_id, max_concurrent,
                    auto_convert, job_updates, tasks, permits, temp_dir,
                    limit, selected_quality >>

\* --------------------------------------------------------- paths, strings
\* temp_dir.join("<stem>.mp4") of downloader.rs
TempFile(stem) == [dir |-> <<"out", ".temp">>, stem |-> stem, ext |-> "mp4"]

\* Path::file_stem
file_stem(path) == path.stem

\* output_dir.join(format!("{}_davinci.mp4", file_stem)) of converter.rs
DavinciFile(input_path) ==
    [dir |-> <<"out">>, stem |-> Append(file_stem(input_path), "_davinci"),
     ext |-> "mp4"]

\* What the subprocesses can write to stderr (joined with "\n").
Stderrs == { <<"network error">> }

\* The io::Error of a failed create_dir_all / Command::spawn / output().
IoError == <<"No such file or directory (os error 2)">>

RECURSIVE GCD(_, _)
GCD(a, b) == IF b = 0 THEN a ELSE GCD(b, a % b)

\* the value n/d
Ratio(n, d) == Frac(n \div GCD(n, d), d \div GCD(n, d))

\* a <= b on fractions
FracLeq(a, b) == a.num * b.den <= b.num * a.den

\* f64::min
FracMin(a, b) == IF FracLeq(a, b) THEN a ELSE b

\* ------------------------------------------- downloader.rs: stdout parser
\* A stdout line is its sequence of whitespace-separated words.
PctWords == {"42.5%", "100%"}

\* caps[1].parse::<f64>() of a percentage word
PctValue(w) == IF w = "42.5%" THEN Frac(85, 2) ELSE P100

RateWords == {"1.2MiB/s"}

\* Positions where the regex's leading literal matches.
MatchAt(line, first, Second) ==
    { k \in 1..(Len(line) - 1) : line[k] = first /\ line[k + 1] \in Second }

\* Regex::captures returns the leftmost match.
Leftmost(S) == CHOOSE k \in S : \A m \in S : k <= m

AllWords(line) == { line[k] : k \in 1..Len(line) }

\* Mutant: the four tests are chained with `else if`, only the first match
\* is reported.
ParseDownloadLine_FirstMatchOnly(line) ==
    LET prog == MatchAt(line, "[download]", PctWords)
        speed == MatchAt(line, "at", RateWords)
        eta == MatchAt(line, "ETA", AllWords(line))
        dest == { k \in MatchAt(line, "[download]", {"Destination:"}) :
                    k + 2 <= Len(line) }
    IN  IF prog # {}
        THEN << [kind |-> "Progress",
                 val |-> PctValue(line[Leftmost(prog) + 1])] >>
        ELSE IF speed # {}
        THEN << [kind |-> "Speed", val |-> <<line[Leftmost(speed) + 1]>>] >>
        ELSE IF eta # {}
        THEN << [kind |-> "Eta", val |-> <<line[Leftmost(eta) + 1]>>] >>
        ELSE IF dest # {}
        THEN << [kind |-> "TempPath",
                 val |-> SubSeq(line, Leftmost(dest) + 2, Len(line))] >>
        ELSE << >>

\* The updates the reader loop sends for one stdout line, in order.
ParseDownloadLine(line) ==
    LET prog == MatchAt(line, "[download]", PctWords)
        speed == MatchAt(line, "at", RateWords)
        eta == MatchAt(line, "ETA", AllWords(line))
        dest == { k \in MatchAt(line, "[download]", {"Destination:"}) :
                    k + 2 <= Len(line) }
    IN  (IF prog = {} THEN << >>
         ELSE << [kind |-> "Progress",
                  val |-> PctValue(line[Leftmost(prog) + 1])] >>)
        \o
        (IF speed = {} THEN << >>
         ELSE << [kind |-> "Speed", val |-> <<line[Leftmost(speed) + 1]>>] >>)
        \o
        (IF eta = {} THEN << >>
         ELSE << [kind |-> "Eta", val |-> <<line[Leftmost(eta) + 1]>>] >>)
        \o
        (IF dest = {} THEN << >>
         ELSE << [kind |-> "TempPath",
                  val |-> SubSeq(line, Leftmost(dest) + 2, Len(line))] >>)

\* The fetcher's stdout lines the program is run against.
DlLines ==
    { <<"[download]", "42.5%", "of", "10MiB", "at", "1.2MiB/s", "ETA", "00:05">>,
      <<"[download]", "Destination:", "a.mp4">>,
      <<"[Merger]", "Merging", "formats">> }

\* A wider choice of lines for the reader run on its own.
ReaderLines ==
    DlLines \cup
    { <<"[download]", "100%", "of", "10MiB", "in", "00:05", "at", "1.2MiB/s">>,
      <<"[download]", "42.5%", "of", "10MiB", "at", "Unknown", "B/s", "ETA", "Unknown">>,
      <<"[download]", "100%">>,
      <<"[download]", "Destination:", "ETA", "b.mp4">>,
      <<"[download]", "a.mp4", "has", "already", "been", "downloaded">>,
      <<"[youtube]", "Extracting", "URL">>,
      << >> }

\* ------------------------------------------- converter.rs: stdout parser
MICROS == 1000000

\* A line of ffmpeg's -progress stream is key=value.
CvLines == { [key |-> "out_time_ms", value |-> 1 * 1000000],
             [key |-> "out_time_ms", value |-> 3 * 1000000],
             [key |-> "progress", value |-> 0] }

\* What ffprobe's duration becomes (duration as u64); 0 also stands for a
\* failed probe or unparsable output.
Durations == {0, 2}

\* Mutant: the percentage is not capped (.min(100.0) left out).
ParseConvertLine_NoCap(line, duration) ==
    IF line.key = "out_time_ms"
    THEN LET time_sec == line.value \div MICROS
         IN  IF duration > 0
             THEN << [kind |-> "Progress",
                      val |-> Ratio(time_sec * 100, duration)] >>
             ELSE << >>
    ELSE << >>

\* A wider choice of lines and of durations for the convert reader run on
\* its own.
ConvertLines ==
    CvLines \cup
    { [key |-> "out_time_ms", value |-> v] :
        v \in {0, 999999, 1000000, 1500000, 2999999, 7000000} }
    \cup { [key |-> "out_time_us", value |-> 1500000],
           [key |-> "frame", value |-> 42] }

MaxDuration == 3

\* The updates the convert reader sends for one line.
ParseConvertLine(line, duration) ==
    IF line.key = "out_time_ms"
    THEN LET time_sec == line.value \div MICROS
         IN  IF duration > 0
             THEN << [kind |-> "Progress",
                      val |-> FracMin(Ratio(time_sec * 100, duration), P100)] >>
             ELSE << >>
    ELSE << >>

Init ==
    /\ InitProgram
    /\ selected_quality = default_quality
    /\ limit = [jobs |-> MaxJobs, tasks |-> MaxTasks, lines |-> MaxLines,
                input |-> MaxInput, pending |-> MaxPending, chars |-> Chars,
                stdout |-> DlLines, progress |-> CvLines]

\* ------------------------------------------------ queue.rs: start_job
\* A pipeline task is modelled one action per stretch of code between two
\* suspension points (.await); the drop of the permit is a step of its own.
\* `fetched` records what the task's fetcher did when it exited 0: "file" if
\* it wrote its file, "nothing" if it wrote none ("no": it has not exited 0).
\* `format` is the -f argument the fetcher was launched with.
\* `dl_line` is the stdout line the download reader read last, `cv_line` the
\* one the convert reader read last.
NewTask(job_id, url, quality) ==
    [ job_id |-> job_id, url |-> url, quality |-> quality, format |-> None,
      pc |-> "acquire", rank |-> 0,
      path |-> None, out |-> None, err |-> None, fetched |-> "no",
      dl_reader |-> "idle", dl_read |-> 0, dl_line |-> << >>,
      cv_reader |-> "idle", cv_read |-> 0, cv_line |-> << >>, duration |-> 0 ]

Tasks == 1..Len(tasks)

\* Every task identifier a run can use.
TaskIds == 1..(MaxTasks + QueueTasks)

\* Task t exists and the runtime has not been dropped: after Quit, run()
\* returns and main() drops the runtime with its tasks.
Live(t) == t \in Tasks /\ main_pc # "quit"

\* (job_id, update) as it travels in the channel; `by` records the sender.
Msg(t, kind, val) ==
    [ job_id |-> tasks[t].job_id, kind |-> kind, val |-> val, by |-> t ]

\* update_tx.send of each update of `ups`, in order
Send(t, ups) ==
    job_updates' = job_updates \o
        [ k \in 1..Len(ups) |-> Msg(t, ups[k][1], ups[k][2]) ]

\* Mutant: mpsc::channel(1), a send waits until the consumer has made room.
CanSend_BoundedChannel == Len(job_updates) < 1

\* The channel is unbounded; the model explores the runs in which at most
\* limit.pending updates wait when a task goes on to send.
CanSend == Len(job_updates) < limit.pending

\* Pipeline positions at which the task holds its semaphore permit.
HoldsPermit(t) == tasks[t].pc \notin {"acquire", "done"}

\* App::process_queue: start_job for every job whose stored status is Queued.
QueuedJobs == SelectSeq(jobs, LAMBDA j : j.status = "Queued")

ProcessQueue ==
    /\ main_pc = "queue"
    /\ Len(tasks) + Len(QueuedJobs) <= limit.tasks
    /\ tasks' = tasks \o [ k \in 1..Len(QueuedJobs) |->
                            NewTask(QueuedJobs[k].id, QueuedJobs[k].url,
                                    selected_quality) ]
    /\ main_pc' = "updates"
    /\ UNCHANGED << jobs, selected_index, input_buffer, next_id, max_concurrent,
                    auto_convert, limit, selected_quality, job_updates,
                    permits, temp_dir >>

\* Mutant: `let _ = semaphore.acquire().await`, the permit is dropped at once.
Acquire_PermitDropped(t) ==
    /\ Live(t)
    /\ tasks[t].pc = "acquire"
    /\ permits > 0
    /\ tasks' = [tasks EXCEPT ![t].pc = "start",
                              ![t].rank = 1 + Cardinality({ u \in Tasks : tasks[u].rank > 0 })]
    /\ UNCHANGED << jobs, selected_index, input_buffer, next_id, max_concurrent,
                    auto_convert, limit, selected_quality, main_pc,
                    job_updates, permits, temp_dir >>

\* semaphore.acquire().await returns the permit
Acquire(t) ==
    /\ Live(t)
    /\ tasks[t].pc = "acquire"
    /\ permits > 0
    /\ permits' = permits - 1
    /\ tasks' = [tasks EXCEPT ![t].pc = "start",
                              ![t].rank = 1 + Cardinality({ u \in Tasks : tasks[u].rank > 0 })]
    /\ UNCHANGED << jobs, selected_index, input_buffer, next_id, max_concurrent,
                    auto_convert, limit, selected_quality, main_pc,
                    job_updates, temp_dir >>

\* Mutant: the task also writes the new status into the store itself.
StartDownload_WritesStore(t) ==
    /\ Live(t)
    /\ tasks[t].pc = "start"
    /\ CanSend
    /\ Send(t, << <<"Status", "Downloading">>, <<"Progress", P0>> >>)
    /\ tasks' = [tasks EXCEPT ![t].pc = "download"]
    /\ jobs' = ApplyUpdate(jobs, tasks[t].job_id,
                           [kind |-> "Status", val |-> "Downloading"])
    /\ UNCHANGED << selected_index, input_buffer, next_id, max_concurrent,
                    auto_convert, limit, selected_quality, main_pc, permits,
                    temp_dir >>

\* queue.rs 38-50: Status(Downloading), Progress(0.0), then download_video
StartDownload(t) ==
    /\ Live(t)
    /\ tasks[t].pc = "start"
    /\ CanSend
    /\ Send(t, << <<"Status", "Downloading">>, <<"Progress", P0>> >>)
    /\ tasks' = [tasks EXCEPT ![t].pc = "download"]
    /\ UNCHANGED << jobs, selected_index, input_buffer, next_id, max_concurrent,
                    auto_convert, limit, selected_quality, main_pc, permits,
                    temp_dir >>

\* The updates of queue.rs 53-95 after a successful download.
DownloadedUpdates(t) ==
    << <<"Title", file_stem(tasks[t].path[1])>>,
       <<"Title", file_stem(tasks[t].path[1])>> >>
    \o (IF auto_convert
        THEN << <<"Status", "Converting">>, <<"Progress", P0>> >>
        ELSE << <<"OutputPath", tasks[t].path[1]>>, <<"Progress", P100>>,
                <<"Status", "Complete">> >>)

\* downloader.rs 130-144 and queue.rs 53-60 / 91-94: the file was found;
\* Title is sent by download_video and again by the queue.
Downloaded(t) ==
    /\ Live(t)
    /\ tasks[t].pc = "downloaded"
    /\ CanSend
    /\ Send(t, DownloadedUpdates(t))
    /\ tasks' = [tasks EXCEPT ![t].pc = IF auto_convert THEN "convert" ELSE "release"]
    /\ UNCHANGED << jobs, selected_index, input_buffer, next_id, max_concurrent,
                    auto_convert, limit, selected_quality, main_pc, permits,
                    temp_dir >>

\* Mutant: Status(Failed) is sent before the Error update.
DownloadFailed_StatusFirst(t) ==
    /\ Live(t)
    /\ tasks[t].pc = "download_failed"
    /\ CanSend
    /\ Send(t, << <<"Status", "Failed">>,
                  <<"Error", <<"Download failed: ">> \o tasks[t].err[1]>> >>)
    /\ tasks' = [tasks EXCEPT ![t].pc = "release"]
    /\ UNCHANGED << jobs, selected_index, input_buffer, next_id, max_concurrent,
                    auto_convert, limit, selected_quality, main_pc, permits,
                    temp_dir >>

\* Mutant: the permit is dropped before the failure is reported.
DownloadFailed_ReleaseFirst(t) ==
    /\ Live(t)
    /\ \/ /\ tasks[t].pc = "download_failed"
          /\ permits' = permits + 1
          /\ tasks' = [tasks EXCEPT ![t].pc = "released_early"]
          /\ UNCHANGED job_updates
       \/ /\ tasks[t].pc = "released_early"
          /\ CanSend
          /\ Send(t, << <<"Error", <<"Download failed: ">> \o tasks[t].err[1]>>,
                        <<"Status", "Failed">> >>)
          /\ tasks' = [tasks EXCEPT ![t].pc = "done"]
          /\ UNCHANGED permits
    /\ UNCHANGED << jobs, selected_index, input_buffer, next_id, max_concurrent,
                    auto_convert, limit, selected_quality, main_pc, temp_dir >>

\* queue.rs 97-102
DownloadFailed(t) ==
    /\ Live(t)
    /\ tasks[t].pc = "download_failed"
    /\ CanSend
    /\ Send(t, << <<"Error", <<"Download failed: ">> \o tasks[t].err[1]>>,
                  <<"Status", "Failed">> >>)
    /\ tasks' = [tasks EXCEPT ![t].pc = "release"]
    /\ UNCHANGED << jobs, selected_index, input_buffer, next_id, max_concurrent,
                    auto_convert, limit, selected_quality, main_pc, permits,
                    temp_dir >>

\* Mutant: Status(Complete) is sent first, the output path and the final
\* progress after it.
Converted_StatusFirst(t) ==
    /\ Live(t)
    /\ tasks[t].pc = "converted"
    /\ CanSend
    /\ Send(t, << <<"Status", "Complete">>, <<"OutputPath", tasks[t].out[1]>>,
                  <<"Progress", P100>> >>)
    /\ tasks' = [tasks EXCEPT ![t].pc = "release"]
    /\ UNCHANGED << jobs, selected_index, input_buffer, next_id, max_concurrent,
                    auto_convert, limit, selected_quality, main_pc, permits,
                    temp_dir >>

\* queue.rs 72-79
Converted(t) ==
    /\ Live(t)
    /\ tasks[t].pc = "converted"
    /\ CanSend
    /\ Send(t, << <<"OutputPath", tasks[t].out[1]>>, <<"Progress", P100>>,
                  <<"Status", "Complete">> >>)
    /\ tasks' = [tasks EXCEPT ![t].pc = "release"]
    /\ UNCHANGED << jobs, selected_index, input_buffer, next_id, max_concurrent,
                    auto_convert, limit, selected_quality, main_pc, permits,
                    temp_dir >>

\* Mutant: the conversion failure reports the error but no Status(Failed).
ConvertFailed_NoStatus(t) ==
    /\ Live(t)
    /\ tasks[t].pc = "convert_failed"
    /\ CanSend
    /\ Send(t, << <<"Error", <<"Conversion failed: ">> \o tasks[t].err[1]>> >>)
    /\ tasks' = [tasks EXCEPT ![t].pc = "release"]
    /\ UNCHANGED << jobs, selected_index, input_buffer, next_id, max_concurrent,
                    auto_convert, limit, selected_quality, main_pc, permits,
                    temp_dir >>

\* queue.rs 80-88
ConvertFailed(t) ==
    /\ Live(t)
    /\ tasks[t].pc = "convert_failed"
    /\ CanSend
    /\ Send(t, << <<"Error", <<"Conversion failed: ">> \o tasks[t].err[1]>>,
                  <<"Status", "Failed">> >>)
    /\ tasks' = [tasks EXCEPT ![t].pc = "release"]
    /\ UNCHANGED << jobs, selected_index, input_buffer, next_id, max_concurrent,
                    auto_convert, limit, selected_quality, main_pc, permits,
                    temp_dir >>

\* Mutant: the permit is forgotten (mem::forget) instead of dropped.
Release_Forgotten(t) ==
    /\ Live(t)
    /\ tasks[t].pc = "release"
    /\ tasks' = [tasks EXCEPT ![t].pc = "done"]
    /\ UNCHANGED << jobs, selected_index, input_buffer, next_id, max_concurrent,
                    auto_convert, limit, selected_quality, main_pc,
                    job_updates, permits, temp_dir >>

\* _permit is dropped at the end of the task.
Release(t) ==
    /\ Live(t)
    /\ tasks[t].pc = "release"
    /\ permits' = permits + 1
    /\ tasks' = [tasks EXCEPT ![t].pc = "done"]
    /\ UNCHANGED << jobs, selected_index, input_buffer, next_id, max_concurrent,
                    auto_convert, limit, selected_quality, main_pc,
                    job_updates, temp_dir >>

\* ------------------------------------------------ downloader.rs: phases
\* One selector of a format expression: name[height<=cap], or the bare
\* name when cap is None.
Selector(name, cap) == [name |-> name, cap |-> cap]

\* video+audio/fallback
FormatExpr(video, audio, fallback) ==
    [video |-> video, audio |-> audio, fallback |-> fallback]

\* Mutant: an unrecognized selector gets the smallest resolution.
Format_DefaultSmallest(quality) ==
    CASE quality = "best" ->
            FormatExpr(Selector("bestvideo", None), Selector("bestaudio", None),
                       Selector("best", None))
      [] quality = "1080p" ->
            FormatExpr(Selector("bestvideo", Some(1080)),
                       Selector("bestaudio", None), Selector("best", Some(1080)))
      [] quality = "720p" ->
            FormatExpr(Selector("bestvideo", Some(720)),
                       Selector("bestaudio", None), Selector("best", Some(720)))
      [] OTHER ->
            FormatExpr(Selector("bestvideo", Some(480)),
                       Selector("bestaudio", None), Selector("best", Some(480)))

\* let format = match quality.as_str() { ... }
Format(quality) ==
    CASE quality = "best" ->
            FormatExpr(Selector("bestvideo", None), Selector("bestaudio", None),
                       Selector("best", None))
      [] quality = "1080p" ->
            FormatExpr(Selector("bestvideo", Some(1080)),
                       Selector("bestaudio", None), Selector("best", Some(1080)))
      [] quality = "720p" ->
            FormatExpr(Selector("bestvideo", Some(720)),
                       Selector("bestaudio", None), Selector("best", Some(720)))
      [] quality = "480p" ->
            FormatExpr(Selector("bestvideo", Some(480)),
                       Selector("bestaudio", None), Selector("best", Some(480)))
      [] OTHER ->
            FormatExpr(Selector("bestvideo", None), Selector("bestaudio", None),
                       Selector("best", None))

\* Mutant: a failed launch ends the task without any report.
DownloadLaunch_SilentFailure(t) ==
    /\ Live(t)
    /\ tasks[t].pc = "download"
    /\ \/ tasks' = [tasks EXCEPT ![t].pc = "fetching", ![t].dl_reader = "reading",
                                 ![t].format = Some(Format(tasks[t].quality))]
       \/ tasks' = [tasks EXCEPT ![t].pc = "release", ![t].err = Some(IoError)]
    /\ UNCHANGED << jobs, selected_index, input_buffer, next_id, max_concurrent,
                    auto_convert, limit, selected_quality, main_pc,
                    job_updates, permits, temp_dir >>

\* create_dir_all and Command::new("yt-dlp")...spawn(): on success the
\* detached stdout reader is spawned and the task reads stderr.
DownloadLaunch(t) ==
    /\ Live(t)
    /\ tasks[t].pc = "download"
    /\ \/ tasks' = [tasks EXCEPT ![t].pc = "fetching", ![t].dl_reader = "reading",
                                 ![t].format = Some(Format(tasks[t].quality))]
       \/ tasks' = [tasks EXCEPT ![t].pc = "download_failed", ![t].err = Some(IoError)]
    /\ UNCHANGED << jobs, selected_index, input_buffer, next_id, max_concurrent,
                    auto_convert, limit, selected_quality, main_pc,
                    job_updates, permits, temp_dir >>

\* stderr reaches EOF and child.wait() returns.  A fetcher that exits 0 has
\* written <title>.<ext> under .temp, or (violating its contract) nothing.
FetcherExit(t) ==
    /\ Live(t)
    /\ tasks[t].pc = "fetching"
    /\ \/ \E wrote \in BOOLEAN :
             /\ temp_dir' = IF wrote THEN temp_dir \cup {tasks[t].url} ELSE temp_dir
             /\ tasks' = [tasks EXCEPT ![t].pc = "scan",
                                       ![t].fetched = IF wrote THEN "file"
                                                      ELSE "nothing"]
       \/ /\ \E stderr \in Stderrs :
               tasks' = [tasks EXCEPT ![t].pc = "download_failed",
                                      ![t].err = Some(<<"yt-dlp failed: ">> \o stderr)]
          /\ UNCHANGED temp_dir
    /\ UNCHANGED << jobs, selected_index, input_buffer, next_id, max_concurrent,
                    auto_convert, limit, selected_quality, main_pc,
                    job_updates, permits >>

\* read_dir(.temp): the first entry that is a file, in directory order.
Scan(t) ==
    /\ Live(t)
    /\ tasks[t].pc = "scan"
    /\ IF temp_dir = {}
       THEN tasks' = [tasks EXCEPT ![t].pc = "download_failed",
                                   ![t].err = Some(<<"Downloaded file not found">>)]
       ELSE \E f \in temp_dir :
               tasks' = [tasks EXCEPT ![t].pc = "downloaded",
                                      ![t].path = Some(TempFile(f))]
    /\ UNCHANGED << jobs, selected_index, input_buffer, next_id, max_concurrent,
                    auto_convert, limit, selected_quality, main_pc,
                    job_updates, permits, temp_dir >>

\* The detached stdout reader of the download phase: next_line() returns a
\* line and the loop body sends its matches.
DlReadLine(t) ==
    /\ Live(t)
    /\ tasks[t].dl_reader = "reading"
    /\ tasks[t].dl_read < limit.lines
    /\ CanSend
    /\ \E line \in limit.stdout :
          LET ups == ParseDownloadLine(line)
          IN  /\ Send(t, [ k \in 1..Len(ups) |-> <<ups[k].kind, ups[k].val>> ])
              /\ tasks' = [tasks EXCEPT ![t].dl_read = @ + 1, ![t].dl_line = line]
    /\ UNCHANGED << jobs, selected_index, input_buffer, next_id, max_concurrent,
                    auto_convert, limit, selected_quality, main_pc, permits,
                    temp_dir >>

\* next_line() returns None: the fetcher has exited and the pipe is drained.
DlReaderEof(t) ==
    /\ Live(t)
    /\ tasks[t].dl_reader = "reading"
    /\ tasks[t].pc # "fetching"
    /\ tasks' = [tasks EXCEPT ![t].dl_reader = "eof"]
    /\ UNCHANGED << jobs, selected_index, input_buffer, next_id, max_concurrent,
                    auto_convert, limit, selected_quality, main_pc,
                    job_updates, permits, temp_dir >>

\* ------------------------------------------------- converter.rs: phases
\* create_dir_all and Command::new("ffmpeg")...spawn()
ConvertLaunch(t) ==
    /\ Live(t)
    /\ tasks[t].pc = "convert"
    /\ \/ tasks' = [tasks EXCEPT ![t].pc = "probe"]
       \/ tasks' = [tasks EXCEPT ![t].pc = "convert_failed", ![t].err = Some(IoError)]
    /\ UNCHANGED << jobs, selected_index, input_buffer, next_id, max_concurrent,
                    auto_convert, limit, selected_quality, main_pc,
                    job_updates, permits, temp_dir >>

\* get_video_duration(&input_path).await? and the spawn of the reader
Probe(t) ==
    /\ Live(t)
    /\ tasks[t].pc = "probe"
    /\ \/ \E d \in Durations :
             tasks' = [tasks EXCEPT ![t].pc = "transcoding",
                                    ![t].cv_reader = "reading",
                                    ![t].duration = d]
       \/ tasks' = [tasks EXCEPT ![t].pc = "convert_failed", ![t].err = Some(IoError)]
    /\ UNCHANGED << jobs, selected_index, input_buffer, next_id, max_concurrent,
                    auto_convert, limit, selected_quality, main_pc,
                    job_updates, permits, temp_dir >>

\* stderr reaches EOF and child.wait() returns; on success the input file is
\* removed.
TranscoderExit(t) ==
    /\ Live(t)
    /\ tasks[t].pc = "transcoding"
    /\ \/ /\ tasks' = [tasks EXCEPT ![t].pc = "converted",
                                    ![t].out = Some(DavinciFile(tasks[t].path[1]))]
          /\ temp_dir' = temp_dir \ {file_stem(tasks[t].path[1])}
       \/ /\ \E stderr \in Stderrs :
               tasks' = [tasks EXCEPT ![t].pc = "convert_failed",
                                      ![t].err = Some(<<"FFmpeg conversion failed: ">> \o stderr)]
          /\ UNCHANGED temp_dir
    /\ UNCHANGED << jobs, selected_index, input_buffer, next_id, max_concurrent,
                    auto_convert, limit, selected_quality, main_pc,
                    job_updates, permits >>

\* The detached stdout reader of the convert phase: one line.
CvReadLine(t) ==
    /\ Live(t)
    /\ tasks[t].cv_reader = "reading"
    /\ tasks[t].cv_read < limit.lines
    /\ CanSend
    /\ \E line \in limit.progress :
          LET ups == ParseConvertLine(line, tasks[t].duration)
          IN  /\ Send(t, [ k \in 1..Len(ups) |-> <<ups[k].kind, ups[k].val>> ])
              /\ tasks' = [tasks EXCEPT ![t].cv_read = @ + 1, ![t].cv_line = line]
    /\ UNCHANGED << jobs, selected_index, input_buffer, next_id, max_concurrent,
                    auto_convert, limit, selected_quality, main_pc, permits,
                    temp_dir >>

CvReaderEof(t) ==
    /\ Live(t)
    /\ tasks[t].cv_reader = "reading"
    /\ tasks[t].pc # "transcoding"
    /\ tasks' = [tasks EXCEPT ![t].cv_reader = "eof"]
    /\ UNCHANGED << jobs, selected_index, input_buffer, next_id, max_concurrent,
                    auto_convert, limit, selected_quality, main_pc,
                    job_updates, permits, temp_dir >>

\* ------------------------------------------------------------ the program
Next ==
    \/ ApplyJobUpdate
    \/ UpdatesDrained
    \/ InputChar
    \/ InputBackspace
    \/ InputPaste
    \/ ClearInput
    \/ SubmitUrl
    \/ DeleteJob
    \/ MoveUp
    \/ MoveDown
    \/ Quit
    \/ EventsDrained
    \/ ProcessQueue
    \/ \E t \in TaskIds : Acquire(t)
    \/ \E t \in TaskIds : StartDownload(t)
    \/ \E t \in TaskIds : DownloadLaunch(t)
    \/ \E t \in TaskIds : FetcherExit(t)
    \/ \E t \in TaskIds : Scan(t)
    \/ \E t \in TaskIds : Downloaded(t)
    \/ \E t \in TaskIds : DownloadFailed(t)
    \/ \E t \in TaskIds : ConvertLaunch(t)
    \/ \E t \in TaskIds : Probe(t)
    \/ \E t \in TaskIds : TranscoderExit(t)
    \/ \E t \in TaskIds : Converted(t)
    \/ \E t \in TaskIds : ConvertFailed(t)
    \/ \E t \in TaskIds : Release(t)
    \/ \E t \in TaskIds : DlReadLine(t)
    \/ \E t \in TaskIds : DlReaderEof(t)
    \/ \E t \in TaskIds : CvReadLine(t)
    \/ \E t \in TaskIds : CvReaderEof(t)

\* The whole program, one job in full detail.
Spec == Init /\ [][Next]_vars

\* The program with several jobs, run against subprocesses that print
\* nothing on stdout (the output readers, with nothing to send, are left
\* out) and a user who types, submits, selects and deletes.
InitQueue ==
    /\ InitProgram
    /\ selected_quality = default_quality
    /\ limit = [jobs |-> QueueJobs, tasks |-> QueueTasks, lines |-> 0,
                input |-> 1, pending |-> QueuePending, chars |-> {"a"},
                stdout |-> {}, progress |-> {}]

NextQueue ==
    \/ ApplyJobUpdate
    \/ UpdatesDrained
    \/ InputChar
    \/ SubmitUrl
    \/ DeleteJob
    \/ MoveUp
    \/ MoveDown
    \/ EventsDrained
    \/ ProcessQueue
    \/ \E t \in TaskIds : Acquire(t)
    \/ \E t \in TaskIds : StartDownload(t)
    \/ \E t \in TaskIds : DownloadLaunch(t)
    \/ \E t \in TaskIds : FetcherExit(t)
    \/ \E t \in TaskIds : Scan(t)
    \/ \E t \in TaskIds : Downloaded(t)
    \/ \E t \in TaskIds : DownloadFailed(t)
    \/ \E t \in TaskIds : ConvertLaunch(t)
    \/ \E t \in TaskIds : Probe(t)
    \/ \E t \in TaskIds : TranscoderExit(t)
    \/ \E t \in TaskIds : Converted(t)
    \/ \E t \in TaskIds : ConvertFailed(t)
    \/ \E t \in TaskIds : Release(t)

SpecQueue == InitQueue /\ [][NextQueue]_vars

\* The program with one job, under every quality selector config.toml can
\* give: the four the downloader knows, another resolution, and "".
FormatJobs == 1
FormatTasks == 1
FormatPending == 1

Qualities == {"best", "1080p", "720p", "480p", "1440p", ""}

InitFormat ==
    /\ InitProgram
    /\ selected_quality \in Qualities
    /\ limit = [jobs |-> FormatJobs, tasks |-> FormatTasks, lines |-> 0,
                input |-> 1, pending |-> FormatPending, chars |-> {"a"},
                stdout |-> {}, progress |-> {}]

SpecFormat == InitFormat /\ [][NextQueue]_vars

\* ------------------------------------------- the program, distinct URLs
\* Two jobs whose URLs may differ, so that the files their fetchers write
\* under .temp can be told apart; the user only types and submits.
FilesJobs == 2
FilesTasks == 2
FilesPending == 1

InitFiles ==
    /\ InitProgram
    /\ selected_quality = default_quality
    /\ limit = [jobs |-> FilesJobs, tasks |-> FilesTasks, lines |-> 0,
                input |-> 1, pending |-> FilesPending, chars |-> Chars,
                stdout |-> {}, progress |-> {}]

NextFiles ==
    \/ ApplyJobUpdate
    \/ UpdatesDrained
    \/ InputChar
    \/ SubmitUrl
    \/ EventsDrained
    \/ ProcessQueue
    \/ \E t \in TaskIds : Acquire(t)
    \/ \E t \in TaskIds : StartDownload(t)
    \/ \E t \in TaskIds : DownloadLaunch(t)
    \/ \E t \in TaskIds : FetcherExit(t)
    \/ \E t \in TaskIds : Scan(t)
    \/ \E t \in TaskIds : Downloaded(t)
    \/ \E t \in TaskIds : DownloadFailed(t)
    \/ \E t \in TaskIds : ConvertLaunch(t)
    \/ \E t \in TaskIds : Probe(t)
    \/ \E t \in TaskIds : TranscoderExit(t)
    \/ \E t \in TaskIds : Converted(t)
    \/ \E t \in TaskIds : ConvertFailed(t)
    \/ \E t \in TaskIds : Release(t)

SpecFiles == InitFiles /\ [][NextFiles]_vars

\* --------------------------------------------------- the program, fairly
\* Two jobs competing for one slot, under the scheduling the runtime gives:
\* the main loop keeps iterating, every spawned task is polled again
\* whenever it can go on (the semaphore queues its waiters fairly), and
\* every subprocess exits.  The user's events are under no obligation.
LiveJobs == 2
LiveTasks == 2
LivePending == 1

InitLive ==
    /\ jobs = << >>
    /\ selected_index = 0
    /\ input_buffer = << >>
    /\ next_id = 1
    /\ max_concurrent = 1
    /\ auto_convert \in BOOLEAN
    /\ main_pc = "updates"
    /\ job_updates = << >>
    /\ tasks = << >>
    /\ permits = max_concurrent
    /\ temp_dir = {}
    /\ selected_quality = default_quality
    /\ limit = [jobs |-> LiveJobs, tasks |-> LiveTasks, lines |-> 0,
                input |-> 1, pending |-> LivePending, chars |-> {"a"},
                stdout |-> {}, progress |-> {}]

\* One step of the task spawned by start_job.
PipelineStep(t) ==
    \/ Acquire(t)
    \/ StartDownload(t)
    \/ DownloadLaunch(t)
    \/ FetcherExit(t)
    \/ Scan(t)
    \/ Downloaded(t)
    \/ DownloadFailed(t)
    \/ ConvertLaunch(t)
    \/ Probe(t)
    \/ TranscoderExit(t)
    \/ Converted(t)
    \/ ConvertFailed(t)
    \/ Release(t)

NextLive ==
    \/ ApplyJobUpdate
    \/ UpdatesDrained
    \/ InputChar
    \/ SubmitUrl
    \/ DeleteJob
    \/ EventsDrained
    \/ ProcessQueue
    \/ \E t \in TaskIds : PipelineStep(t)

Fairness ==
    /\ WF_vars(ApplyJobUpdate)
    /\ WF_vars(UpdatesDrained)
    /\ WF_vars(EventsDrained)
    /\ WF_vars(ProcessQueue)
    /\ \A t \in 1..LiveTasks : SF_vars(PipelineStep(t))

SpecLive == InitLive /\ [][NextLive]_vars /\ Fairness

\* ------------------------------------- the program, consumer standing still
\* The pipeline tasks running (against subprocesses that print nothing on
\* stdout) while the main loop takes
\* nothing from the update channel: it goes round only as long as try_recv
\* finds the channel empty.  limit.pending is more than the tasks explored
\* can send altogether, so that no send of the run is held back.
StalledJobs == 1
StalledTasks == 2

InitStalled ==
    /\ InitProgram
    /\ selected_quality = default_quality
    /\ limit = [jobs |-> StalledJobs, tasks |-> StalledTasks, lines |-> 0,
                input |-> 1, chars |-> {"a"}, stdout |-> {}, progress |-> {},
                pending |-> 1 + StalledTasks * 9]

NextStalled ==
    \/ UpdatesDrained
    \/ InputChar
    \/ SubmitUrl
    \/ EventsDrained
    \/ ProcessQueue
    \/ \E t \in TaskIds : PipelineStep(t)

SpecStalled ==
    /\ InitStalled
    /\ [][NextStalled]_vars
    /\ \A t \in 1..StalledTasks : SF_vars(PipelineStep(t))

\* ------------------------------------------ the download reader on its own
\* The detached stdout reader of one running download, fed lines drawn from
\* ReaderLines, with the main loop applying what it sends.
ReaderReads == 2

InitReader ==
    /\ jobs = << [NewJob(1, <<"a">>) EXCEPT !.status = "Downloading"] >>
    /\ selected_index = 0
    /\ input_buffer = << >>
    /\ next_id = 2
    /\ max_concurrent = 1
    /\ auto_convert \in BOOLEAN
    /\ main_pc = "updates"
    /\ job_updates = << >>
    /\ tasks = << [NewTask(1, <<"a">>, default_quality) EXCEPT !.pc = "fetching", !.rank = 1,
                                              !.dl_reader = "reading"] >>
    /\ permits = 0
    /\ temp_dir = {}
    /\ selected_quality = default_quality
    /\ limit = [jobs |-> 1, tasks |-> 1, lines |-> ReaderReads, input |-> 0,
                pending |-> 4, chars |-> {}, stdout |-> ReaderLines,
                progress |-> {}]

NextReader ==
    \/ ApplyJobUpdate
    \/ \E t \in TaskIds : DlReadLine(t)

SpecReader == InitReader /\ [][NextReader]_vars

\* ------------------------------------------- the event handlers on their own
\* handle_event run on drawn stores: up to StoreJobs jobs in any statuses the
\* slots allow, any valid selection, an empty or a typed input buffer.
StoreJobs == 3

StoreSamples(n) ==
    { js \in [1..n -> [id : 1..n, status : Statuses]] :
        /\ \A i \in 1..n : js[i].id = i
        /\ Cardinality({ i \in 1..n : is_active(js[i].status) }) <= MaxConcurrent }

InitStore ==
    /\ \E n \in 0..StoreJobs : \E js \in StoreSamples(n) :
          /\ jobs = [ i \in 1..n |->
                        [NewJob(i, <<"a">>) EXCEPT !.status = js[i].status] ]
          /\ selected_index \in 0..saturating_sub(n, 1)
          /\ next_id = n + 1
    /\ input_buffer \in { << >>, <<"b">> }
    /\ max_concurrent = MaxConcurrent
    /\ auto_convert = TRUE
    /\ main_pc = "events"
    /\ job_updates = << >>
    /\ tasks = << >>
    /\ permits = 0
    /\ temp_dir = {}
    /\ selected_quality = default_quality
    /\ limit = [jobs |-> StoreJobs + 1, tasks |-> 0, lines |-> 0, input |-> 1,
                pending |-> 0, chars |-> {"b"}, stdout |-> {}, progress |-> {}]

NextStore ==
    \/ InputChar
    \/ SubmitUrl
    \/ DeleteJob
    \/ MoveUp
    \/ MoveDown

SpecStore == InitStore /\ [][NextStore]_vars

\* ------------------------------------------- the convert reader on its own
\* The detached stdout reader of one running conversion whose probe gave a
\* duration in 0..MaxDuration, fed lines drawn from ConvertLines, with the
\* main loop applying what it sends.
ConvertReads == 2

InitConvertReader ==
    /\ jobs = << [NewJob(1, <<"a">>) EXCEPT !.status = "Converting"] >>
    /\ selected_index = 0
    /\ input_buffer = << >>
    /\ next_id = 2
    /\ max_concurrent = 1
    /\ auto_convert = TRUE
    /\ main_pc = "updates"
    /\ job_updates = << >>
    /\ \E d \in 0..MaxDuration :
          tasks = << [NewTask(1, <<"a">>, default_quality) EXCEPT
                        !.pc = "transcoding", !.rank = 1, !.fetched = "file",
                        !.path = Some(TempFile(<<"a">>)), !.dl_reader = "eof",
                        !.cv_reader = "reading", !.duration = d] >>
    /\ permits = 0
    /\ temp_dir = { <<"a">> }
    /\ selected_quality = default_quality
    /\ limit = [jobs |-> 1, tasks |-> 1, lines |-> ConvertReads, input |-> 0,
                pending |-> 2, chars |-> {}, stdout |-> {},
                progress |-> ConvertLines]

NextConvertReader ==
    \/ ApplyJobUpdate
    \/ \E t \in TaskIds : CvReadLine(t)

SpecConvertReader == InitConvertReader /\ [][NextConvertReader]_vars

\* ------------------------------------------- apply_job_update on its own
\* apply_job_update run on drawn inputs: a store of two jobs and one or two
\* pending updates of every variant, for either job.
UpdateSamples ==
    { [kind |-> "Status", val |-> "Downloading"],
      [kind |-> "Status", val |-> "Failed"],
      [kind |-> "Progress", val |-> Frac(573, 10)],
      [kind |-> "Speed", val |-> <<"1.2MiB/s">>],
      [kind |-> "Eta", val |-> <<"00:05">>],
      [kind |-> "Title", val |-> <<"a">>],
      [kind |-> "Error", val |-> <<"Download failed: ">>],
      [kind |-> "TempPath", val |-> <<"a.mp4">>],
      [kind |-> "OutputPath", val |-> TempFile(<<"a">>)] }

PendingSamples ==
    { [job_id |-> id, kind |-> u.kind, val |-> u.val, by |-> id] :
        id \in 1..2, u \in UpdateSamples }

InitApply ==
    /\ \E s1 \in {"Queued", "Downloading"}, s2 \in {"Queued", "Downloading"} :
          jobs = << [NewJob(1, <<"a">>) EXCEPT !.status = s1],
                    [NewJob(2, <<"b">>) EXCEPT !.status = s2] >>
    /\ selected_index \in 0..1
    /\ input_buffer = << >>
    /\ next_id = 3
    /\ max_concurrent = MaxConcurrent
    /\ auto_convert = TRUE
    /\ main_pc = "updates"
    /\ \E m1 \in PendingSamples, m2 \in PendingSamples :
          job_updates \in { <<m1>>, <<m1, m2>> }
    /\ tasks = << >>
    /\ permits = max_concurrent
    /\ temp_dir = {}
    /\ selected_quality = default_quality
    /\ limit = [jobs |-> 2, tasks |-> 0, lines |-> 0, input |-> 0,
                pending |-> 2, chars |-> {}, stdout |-> {}, progress |-> {}]

NextApply ==
    \/ ApplyJobUpdate
    \/ UpdatesDrained

SpecApply == InitApply /\ [][NextApply]_vars

\* ================================================================ claims
TasksOf(id) == { t \in Tasks : tasks[t].job_id = id }

Holders == { t \in Tasks : HoldsPermit(t) }

\* C1: the number of jobs whose stored status is Downloading or Converting
\* never exceeds max_concurrent.
C1_ActiveAtMostMax == active_jobs_count <= max_concurrent

\* Every slot is taken by a job the store shows active while a further
\* pipeline task waits for a permit.
C1_Witness ==
    /\ active_jobs_count = max_concurrent
    /\ permits = 0
    /\ \E t \in Tasks : tasks[t].pc = "acquire"

\* C2: the stored status of a job only moves forward along
\* Queued, Downloading, Converting, Complete | Failed.
StatusOrder(status) ==
    CASE status = "Queued" -> 0
      [] status = "Downloading" -> 1
      [] status = "Converting" -> 2
      [] status = "Complete" -> 3
      [] status = "Failed" -> 3

LegalMove(a, b) == a = b \/ StatusOrder(a) < StatusOrder(b)

C2_StatusPath ==
    [][ \A i \in 1..Len(jobs) : \A k \in 1..Len(jobs') :
          jobs[i].id = jobs'[k].id => LegalMove(jobs[i].status, jobs'[k].status)
      ]_vars

\* C3: start_job is invoked at most once for each job id.
C3_StartedOnce ==
    \A id \in 1..(next_id - 1) : Cardinality(TasksOf(id)) <= 1

\* C4: available_slots() plus the number of pipeline executions that have
\* acquired and not yet ended is max_concurrent (so all slots are free when
\* no execution is in progress).
C4_SlotAccounting ==
    /\ permits + Cardinality(Holders) = max_concurrent
    /\ (Holders = {} => permits = max_concurrent)

\* Executions have ended on a failure path and on a success path, all slots
\* are free again.
C4_Witness ==
    /\ permits = max_concurrent
    /\ \E t \in Tasks : tasks[t].pc = "done" /\ tasks[t].err # None
    /\ \E t \in Tasks : tasks[t].pc = "done" /\ tasks[t].err = None

\* C5: a job whose pipeline succeeded (fetcher exit 0 with a file, then
\* transcoder exit 0 or auto-convert off) is Complete with progress 100 and
\* an output path once every update emitted for it has been applied.
Succeeded(t) == tasks[t].pc = "done" /\ tasks[t].err = None

AllEmitted(id) ==
    \A t \in TasksOf(id) :
        /\ tasks[t].pc = "done"
        /\ tasks[t].dl_reader \in {"idle", "eof"}
        /\ tasks[t].cv_reader \in {"idle", "eof"}

AllApplied(id) ==
    /\ AllEmitted(id)
    /\ \A k \in 1..Len(job_updates) : job_updates[k].job_id # id

C5_CompleteAt100 ==
    \A i \in 1..Len(jobs) :
        ( /\ \E t \in TasksOf(jobs[i].id) : Succeeded(t)
          /\ AllApplied(jobs[i].id) )
        => /\ jobs[i].status = "Complete"
           /\ jobs[i].progress = P100
           /\ jobs[i].output_path # None

\* C6: an output reader sends its updates between the Status update that
\* opens its phase and the Status update that ends it.
DownloadOpen == {"fetching", "scan", "downloaded", "download_failed"}

ConvertOpen == {"transcoding", "converted", "convert_failed"}

C6_ReaderWithinPhase ==
    [][ \A t \in TaskIds :
          /\ (DlReadLine(t) /\ job_updates' # job_updates)
                => tasks[t].pc \in DownloadOpen
          /\ (CvReadLine(t) /\ job_updates' # job_updates)
                => tasks[t].pc \in ConvertOpen ]_vars

\* C7: no two pipeline executions for the same job id hold a slot at the
\* same time.
C7_OneHolderPerJob ==
    \A t \in Holders : \A u \in Holders :
        tasks[t].job_id = tasks[u].job_id => t = u

\* C8: a job that was not among the first max_concurrent to acquire a slot
\* emits Status(Downloading) only after an earlier-admitted other job has
\* emitted its terminal status, and is active in the store only after that
\* terminal status has been taken from the channel and applied.
JobRanks(id) == { tasks[t].rank : t \in TasksOf(id) } \ {0}

LateJob(id) ==
    /\ JobRanks(id) # {}
    /\ \A r \in JobRanks(id) : r > max_concurrent

SentDownloading(t) == tasks[t].pc \notin {"acquire", "start"}

SentTerminal(t) == tasks[t].pc \in {"release", "done"}

TerminalApplied(t) ==
    /\ SentTerminal(t)
    /\ \A k \in 1..Len(job_updates) :
          ~ ( /\ job_updates[k].by = t
              /\ job_updates[k].kind = "Status"
              /\ job_updates[k].val \in {"Complete", "Failed"} )

SelectedActive ==
    /\ jobs # << >>
    /\ jobs[selected_index + 1].status \in {"Downloading", "Converting"}

C9_DeleteActiveNoop ==
    [][ (DeleteJob /\ SelectedActive) =>
           (jobs' = jobs /\ selected_index' = selected_index) ]_vars

\* The event loop is running with two jobs, the selected one Converting.
C9_Witness ==
    /\ main_pc = "events"
    /\ Len(jobs) = 2
    /\ jobs[selected_index + 1].status = "Converting"

\* C10: applying an update whose job id is not in the store leaves the store
\* unchanged.
UnknownId(id) == \A i \in 1..Len(jobs) : jobs[i].id # id

C10_UnknownIdNoop ==
    [][ (ApplyJobUpdate /\ UnknownId(Head(job_updates).job_id)) =>
           UNCHANGED store ]_vars

\* The next update to apply is for a job that was deleted while its pipeline
\* was running.
C10_Witness ==
    /\ main_pc = "updates"
    /\ job_updates # << >>
    /\ UnknownId(Head(job_updates).job_id)
    /\ \E t \in Tasks : /\ tasks[t].job_id = Head(job_updates).job_id
                        /\ tasks[t].pc # "done"

\* C11: applying an update to a known job sets exactly the field its variant
\* names, to the carried value, and leaves the job's other fields, the other
\* jobs, the job order, input_buffer and selected_index unchanged.
JobFields ==
    {"id", "url", "title", "status", "progress", "speed", "eta", "error",
     "output_path", "temp_path"}

FieldOf(kind) ==
    CASE kind = "Status" -> "status"
      [] kind = "Progress" -> "progress"
      [] kind = "Speed" -> "speed"
      [] kind = "Eta" -> "eta"
      [] kind = "Title" -> "title"
      [] kind = "Error" -> "error"
      [] kind = "TempPath" -> "temp_path"
      [] kind = "OutputPath" -> "output_path"

Stored(update) ==
    IF update.kind \in {"Status", "Progress"} THEN update.val ELSE <<update.val>>

C11_OneFieldSet ==
    [][ (ApplyJobUpdate /\ ~ UnknownId(Head(job_updates).job_id)) =>
          LET u == Head(job_updates)
          IN  /\ Len(jobs') = Len(jobs)
              /\ selected_index' = selected_index
              /\ input_buffer' = input_buffer
              /\ \A i \in 1..Len(jobs) :
                    IF jobs[i].id = u.job_id
                    THEN /\ jobs'[i][FieldOf(u.kind)] = Stored(u)
                         /\ \A f \in JobFields \ {FieldOf(u.kind)} :
                               jobs'[i][f] = jobs[i][f]
                    ELSE jobs'[i] = jobs[i] ]_vars

\* Progress(57.3) has been applied to the second job after an Eta update:
\* the ETA is still there and the first job is as it was created.
C11_Witness ==
    /\ Len(jobs) = 2
    /\ jobs[2].progress = Frac(573, 10)
    /\ jobs[2].eta = Some(<<"00:05">>)
    /\ jobs[2].status = "Queued"
    /\ jobs[1] = NewJob(1, <<"a">>)
    /\ job_updates = << >>

\* C12: with max_concurrent >= 1, subprocesses that exit and fair
\* scheduling of the tasks and of the main loop, every submitted job that is
\* never deleted eventually has stored status Complete or Failed, whatever
\* happens to the other jobs.  (A run in which the main loop keeps iterating
\* is one in which it passes its first statement again and again.)
InStore(id) == \E i \in 1..Len(jobs) : jobs[i].id = id

Terminal(id) ==
    \E i \in 1..Len(jobs) :
        jobs[i].id = id /\ jobs[i].status \in {"Complete", "Failed"}

C12_EventuallyTerminal ==
    ([]<>(main_pc = "updates")) =>
        \A id \in 1..LiveJobs : InStore(id) ~> (Terminal(id) \/ ~ InStore(id))

\* Both jobs are in the store, one ended Failed and the other Complete.
C12_Witness ==
    /\ Len(jobs) = 2
    /\ jobs[1].status = "Failed"
    /\ jobs[2].status = "Complete"

\* C13: no step of a pipeline execution waits on the update consumer.  With
\* the consumer taking nothing from the channel, (1) an execution holding a
\* slot can always take its next step, sends included; (2) process_queue's start_job calls return whatever
\* the number of free slots; (3) every execution runs to its end, and (4)
\* once all have ended every slot is free.
C13_NoWaitOnConsumer ==
    /\ [](\A t \in Tasks : HoldsPermit(t) => ENABLED PipelineStep(t))
    /\ []((main_pc = "queue" /\ Len(tasks) + Len(QueuedJobs) <= limit.tasks)
            => ENABLED ProcessQueue)
    /\ \A t \in 1..StalledTasks :
          (t \in Tasks) ~> (t \in Tasks /\ tasks[t].pc = "done")
    /\ []((\A t \in Tasks : tasks[t].pc = "done") => permits = max_concurrent)

\* Nothing was ever applied to the store, yet two executions have run to
\* their end, the second having been started while no slot was free, and
\* their updates wait in the channel.
C13_Witness ==
    /\ max_concurrent = 1
    /\ Len(tasks) = 2
    /\ \A t \in Tasks : tasks[t].pc = "done"
    /\ permits = max_concurrent
    /\ Len(job_updates) >= 10
    /\ \A i \in 1..Len(jobs) : jobs[i].status = "Queued"

\* C14: when the fetcher exits non-zero with stderr text S, the job ends
\* Failed and its error text contains "Download failed: " immediately
\* followed by S.
Contains(str, sub) ==
    \E k \in 0..(Len(str) - Len(sub)) : SubSeq(str, k + 1, k + Len(sub)) = sub

\* The fetcher of execution t exited non-zero (downloader.rs 114-117).
FetcherFailed(t) ==
    /\ tasks[t].err # None
    /\ Head(tasks[t].err[1]) = "yt-dlp failed: "

\* The stderr text it had written.
CapturedStderr(t) == Tail(tasks[t].err[1])

C14_DownloadFailedText ==
    \A i \in 1..Len(jobs) : \A t \in TasksOf(jobs[i].id) :
        (FetcherFailed(t) /\ AllApplied(jobs[i].id)) =>
            /\ jobs[i].status = "Failed"
            /\ jobs[i].error # None
            /\ Contains(jobs[i].error[1],
                        <<"Download failed: ">> \o CapturedStderr(t))

\* C15: an execution whose fetcher, transcoder or duration probe could not be
\* launched emits an Error update followed by Status(Failed) for its job,
\* touching no other execution, no slot and no update already in the
\* channel, then releases its slot; its job is not left Downloading or
\* Converting once every update emitted for it has been applied.
LaunchFailed(t) == tasks[t].err = Some(IoError)

ReportsFailure(t) ==
    /\ Len(job_updates') = Len(job_updates) + 2
    /\ SubSeq(job_updates', 1, Len(job_updates)) = job_updates
    /\ LET e == job_updates'[Len(job_updates) + 1]
           f == job_updates'[Len(job_updates) + 2]
       IN  /\ e.job_id = tasks[t].job_id /\ e.kind = "Error"
           /\ f.job_id = tasks[t].job_id /\ f.kind = "Status" /\ f.val = "Failed"
    /\ tasks'[t].pc = "release"
    /\ \A u \in Tasks \ {t} : tasks'[u] = tasks[u]
    /\ permits' = permits

C15_LaunchFailureLocal ==
    /\ [][ \A t \in Tasks :
              ( /\ LaunchFailed(t)
                /\ tasks[t].pc \in {"download_failed", "convert_failed"}
                /\ tasks'[t] # tasks[t] ) => ReportsFailure(t) ]_vars
    /\ [](\A i \in 1..Len(jobs) :
            ( /\ \E t \in TasksOf(jobs[i].id) : LaunchFailed(t)
              /\ AllApplied(jobs[i].id) ) => ~ is_active(jobs[i].status))
    /\ []((\A t \in Tasks : tasks[t].pc = "done") => permits = max_concurrent)

\* One job's launch failed and the job is Failed in the store with its
\* error; the other job is Complete; every slot is free.
C15_Witness ==
    /\ Len(jobs) = 2
    /\ \E i \in 1..2 :
          /\ jobs[i].status = "Failed"
          /\ jobs[i].error = Some(<<"Conversion failed: ">> \o IoError)
          /\ \A t \in TasksOf(jobs[i].id) : LaunchFailed(t) /\ tasks[t].pc = "done"
          /\ jobs[3 - i].status = "Complete"
    /\ permits = max_concurrent

\* C16: a job whose fetcher exits 0 without having produced a file fails its
\* download phase with "Downloaded file not found" and ends Failed with
\* that error, whatever other jobs have put under the same output directory.
\* (Stated for jobs with a single pipeline execution.)
StartedOnce(t) == TasksOf(tasks[t].job_id) = {t}

PastScan(t) == tasks[t].pc \notin {"acquire", "start", "download", "fetching", "scan"}

C16_FileNotFound ==
    /\ \A t \in Tasks :
          (StartedOnce(t) /\ tasks[t].fetched = "nothing" /\ PastScan(t)) =>
              tasks[t].err = Some(<<"Downloaded file not found">>)
    /\ \A i \in 1..Len(jobs) : \A t \in TasksOf(jobs[i].id) :
          (StartedOnce(t) /\ tasks[t].fetched = "nothing" /\ AllApplied(jobs[i].id)) =>
              /\ jobs[i].status = "Failed"
              /\ jobs[i].error = Some(<<"Download failed: ", "Downloaded file not found">>)

\* C17: in every reachable state a job whose stored status is Failed has an
\* error message, and a job leaves the store only in a DeleteJob step.
JobIds(js) == { js[i].id : i \in 1..Len(js) }

C17_FailedKeepsError ==
    /\ [](\A i \in 1..Len(jobs) :
            jobs[i].status = "Failed" => jobs[i].error # None)
    /\ [][ DeleteJob \/ JobIds(jobs) \subseteq JobIds(jobs') ]_vars

\* One job was deleted; the other has failed, is still in the store with its
\* error, and its pipeline has ended.
C17_Witness ==
    /\ next_id = 3
    /\ Len(jobs) = 1
    /\ jobs[1].status = "Failed"
    /\ jobs[1].error # None
    /\ \A t \in TasksOf(jobs[1].id) : tasks[t].pc = "done"
    /\ job_updates = << >>

\* C18: no outcome of the duration probe ends the convert phase: after the
\* probe the execution waits for the transcoder, whose exit status alone
\* decides the result; and with a duration of 0 the convert reader emits
\* no Progress update.
C18_ProbeNonFatal ==
    [][ \A t \in Tasks :
          /\ (tasks[t].pc = "probe" /\ tasks'[t] # tasks[t])
                => tasks'[t].pc = "transcoding"
          /\ (CvReadLine(t) /\ tasks[t].duration = 0)
                => job_updates' = job_updates ]_vars

\* C19: the file a job's successful download phase returns (and the job then
\* converts or reports as its output) is the file that job's own fetcher
\* wrote, whatever other jobs download or have downloaded into the same
\* output directory.  (Stated for jobs with a single pipeline execution
\* whose fetcher did write its file.)
OwnFile(t) == TempFile(tasks[t].url)

C19_OwnFileReturned ==
    /\ \A t \in Tasks :
          (StartedOnce(t) /\ tasks[t].fetched = "file" /\ tasks[t].path # None) =>
              tasks[t].path[1] = OwnFile(t)
    /\ \A i \in 1..Len(jobs) : \A t \in TasksOf(jobs[i].id) :
          ( /\ StartedOnce(t) /\ tasks[t].fetched = "file"
            /\ ~ auto_convert /\ jobs[i].output_path # None ) =>
              jobs[i].output_path[1] = OwnFile(t)

\* C20: for every stdout line the download reader emits exactly the updates
\* for the tokens the line contains: Progress(p) if it has a percentage
\* token p, Speed if it has a transfer-rate token, Eta if it has an ETA
\* token, TempPath if it is a destination announcement; at most one of each,
\* in that order, all of them in the step that handles the line; a line with
\* none of the tokens emits nothing.
PctTokens(line) ==
    { line[k + 1] : k \in { n \in 1..(Len(line) - 1) :
                              line[n] = "[download]" /\ line[n + 1] \in PctWords } }

RateTokens(line) ==
    { line[k + 1] : k \in { n \in 1..(Len(line) - 1) :
                              line[n] = "at" /\ line[n + 1] \in RateWords } }

EtaTokens(line) ==
    { line[k + 1] : k \in { n \in 1..(Len(line) - 1) : line[n] = "ETA" } }

IsDestination(line) ==
    Len(line) >= 3 /\ line[1] = "[download]" /\ line[2] = "Destination:"

KindOrder(kind) ==
    CASE kind = "Progress" -> 1
      [] kind = "Speed" -> 2
      [] kind = "Eta" -> 3
      [] kind = "TempPath" -> 4
      [] OTHER -> 0

KindsOf(ups) == { ups[k].kind : k \in 1..Len(ups) }

ExactlyTheTokens(line, ups) ==
    /\ \A k \in 1..Len(ups) : KindOrder(ups[k].kind) > 0
    /\ \A k \in 1..(Len(ups) - 1) : KindOrder(ups[k].kind) < KindOrder(ups[k + 1].kind)
    /\ ("Progress" \in KindsOf(ups)) <=> (PctTokens(line) # {})
    /\ ("Speed" \in KindsOf(ups)) <=> (RateTokens(line) # {})
    /\ ("Eta" \in KindsOf(ups)) <=> (EtaTokens(line) # {})
    /\ ("TempPath" \in KindsOf(ups)) <=> IsDestination(line)
    /\ \A k \in 1..Len(ups) :
          CASE ups[k].kind = "Progress" ->
                 \E w \in PctTokens(line) : ups[k].val = PctValue(w)
            [] ups[k].kind = "Speed" -> \E w \in RateTokens(line) : ups[k].val = <<w>>
            [] ups[k].kind = "Eta" -> \E w \in EtaTokens(line) : ups[k].val = <<w>>
            [] OTHER -> ups[k].val = SubSeq(line, 3, Len(line))

C20_ReaderEmitsTokens ==
    [][ \A t \in Tasks :
          (tasks'[t].dl_read = tasks[t].dl_read + 1) =>
              /\ Len(job_updates') >= Len(job_updates)
              /\ SubSeq(job_updates', 1, Len(job_updates)) = job_updates
              /\ ExactlyTheTokens(tasks'[t].dl_line,
                     SubSeq(job_updates', Len(job_updates) + 1, Len(job_updates')))
              /\ \A k \in (Len(job_updates) + 1)..Len(job_updates') :
                    job_updates'[k].job_id = tasks[t].job_id ]_vars

\* The reader has handled a line without tokens and then a progress line:
\* Progress(42.5), Speed and Eta wait in the channel, in this order.
C20_Witness ==
    /\ Len(tasks) = 1
    /\ tasks[1].dl_read = 2
    /\ PctTokens(tasks[1].dl_line) # {}
    /\ Len(job_updates) = 3
    /\ job_updates[1].kind = "Progress" /\ job_updates[1].val = Frac(85, 2)
    /\ job_updates[2].kind = "Speed"
    /\ job_updates[3].kind = "Eta"

\* C21: the Status updates one pipeline execution emits are, in order,
\* Downloading, Failed; Downloading, Complete (auto_convert off);
\* Downloading, Converting, Complete or Downloading, Converting, Failed
\* (auto_convert on).  The terminal Status is emitted once and is the last
\* update of the queue task; with auto_convert off the OutputPath emitted
\* is the path the download phase returned.  (With nothing taken from the
\* channel, job_updates is the whole history of emissions.)
EmittedBy(t) == SelectSeq(job_updates, LAMBDA m : m.by = t)

StatusesOf(ups) ==
    LET st == SelectSeq(ups, LAMBDA m : m.kind = "Status")
    IN  [ k \in 1..Len(st) |-> st[k].val ]

StatusRuns ==
    IF auto_convert
    THEN { <<"Downloading", "Failed">>,
           <<"Downloading", "Converting", "Complete">>,
           <<"Downloading", "Converting", "Failed">> }
    ELSE { <<"Downloading", "Failed">>, <<"Downloading", "Complete">> }

IsPrefix(p, q) == Len(p) <= Len(q) /\ SubSeq(q, 1, Len(p)) = p

Ended(t) == tasks[t].pc \in {"release", "done"}

C21_StatusRun ==
    \A t \in Tasks :
        LET mine == EmittedBy(t)
            st == StatusesOf(mine)
        IN  /\ \E run \in StatusRuns : IsPrefix(st, run)
            /\ Ended(t) <=> (st \in StatusRuns)
            /\ Ended(t) => /\ mine[Len(mine)].kind = "Status"
                            /\ mine[Len(mine)].val \in {"Complete", "Failed"}
            /\ ~ auto_convert =>
                  \A k \in 1..Len(mine) :
                      mine[k].kind = "OutputPath" => tasks[t].path = Some(mine[k].val)

\* Two executions have ended: one emitted Downloading, Converting, Complete,
\* the other Downloading, Failed.
C21_Witness ==
    /\ Len(tasks) = 2
    /\ StatusesOf(EmittedBy(1)) = <<"Downloading", "Converting", "Complete">>
    /\ StatusesOf(EmittedBy(2)) = <<"Downloading", "Failed">>
    /\ tasks[2].pc = "done"

\* C22: DeleteJob never removes from the store a job for which a pipeline
\* execution currently holds a slot.
C22_NoDeleteWhileSlotHeld ==
    [][ (DeleteJob /\ Len(jobs') < Len(jobs)) =>
           \A t \in Holders : tasks[t].job_id # jobs[selected_index + 1].id ]_vars

\* C23: a step of a pipeline task or of an output reader (it changes a task,
\* the permits, the files, or adds to the channel) leaves the store
\* unchanged; a job's fields change only in apply_job_update, and the set
\* of jobs changes only in the SubmitUrl and DeleteJob handlers.
TaskStep ==
    \/ \E t \in Tasks : tasks'[t] # tasks[t]
    \/ permits' # permits
    \/ temp_dir' # temp_dir
    \/ Len(job_updates') > Len(job_updates)

FieldsChanged ==
    \E i \in 1..Len(jobs) : \E k \in 1..Len(jobs') :
        jobs[i].id = jobs'[k].id /\ jobs[i] # jobs'[k]

C23_StoreOwnedByMainLoop ==
    [][ /\ TaskStep => UNCHANGED store
        /\ FieldsChanged => ApplyJobUpdate
        /\ (JobIds(jobs') # JobIds(jobs)) => (SubmitUrl \/ DeleteJob) ]_vars

\* The fetcher has written its file and exited, the first updates wait in
\* the channel, and the store still shows the job as it was submitted.
C23_Witness ==
    /\ Len(jobs) = 1
    /\ jobs[1] = NewJob(1, jobs[1].url)
    /\ \E t \in Tasks : tasks[t].pc = "scan" /\ tasks[t].fetched = "file"
    /\ temp_dir # {}
    /\ Len(job_updates) = 2

\* C24: DeleteJob on a non-empty list whose selected job is Queued, Complete
\* or Failed removes exactly the job at selected_index, keeps every other
\* job with its fields and in the same order, and leaves selected_index
\* inside the shortened list (0 when the list has become empty).
SelectedDeletable ==
    /\ jobs # << >>
    /\ jobs[selected_index + 1].status \in {"Queued", "Complete", "Failed"}

C24_DeleteRemovesSelected ==
    [][ (DeleteJob /\ SelectedDeletable) =>
          /\ Len(jobs') = Len(jobs) - 1
          /\ \A k \in 1..Len(jobs') :
                jobs'[k] = IF k <= selected_index THEN jobs[k] ELSE jobs[k + 1]
          /\ IF jobs' = << >> THEN selected_index' = 0
                              ELSE selected_index' < Len(jobs') ]_vars

\* The first of three jobs was deleted: the two others remain, in order,
\* the third of them still Downloading.
C24_Witness ==
    /\ Len(jobs) = 2
    /\ next_id = 4
    /\ jobs[1].id = 2 /\ jobs[2].id = 3
    /\ jobs[2].status = "Downloading"
    /\ selected_index = 0

\* C25: selected_index is 0 when the job list is empty and less than its
\* length otherwise, so that jobs[selected_index] in the DeleteJob handler
\* is always within bounds.
C25_SelectionInBounds ==
    IF jobs = << >> THEN selected_index = 0 ELSE selected_index < Len(jobs)

\* The second of two jobs was selected and deleted: the selection has moved
\* back onto the remaining job.
C25_Witness ==
    /\ next_id = 3
    /\ Len(jobs) = 1
    /\ jobs[1].id = 1
    /\ selected_index = 0

\* C26: with duration d > 0 and an elapsed marker of t microseconds the
\* convert reader emits Progress(min(100, floor(t / 1000000) / d * 100));
\* every Progress it emits lies in [0, 100]; with d = 0, and for a line that
\* is no elapsed marker, it emits nothing.
IsPercentOf(v, t, d) ==
    LET secs == t \div 1000000
    IN  IF secs * 100 >= 100 * d
        THEN v.num = 100 * v.den
        ELSE v.num * d = secs * 100 * v.den

C26_ConvertPercent ==
    [][ \A t \in Tasks :
          (tasks'[t].cv_read = tasks[t].cv_read + 1) =>
            LET line == tasks'[t].cv_line
                d == tasks[t].duration
                new == SubSeq(job_updates', Len(job_updates) + 1, Len(job_updates'))
            IN  /\ SubSeq(job_updates', 1, Len(job_updates)) = job_updates
                /\ IF line.key = "out_time_ms" /\ d > 0
                   THEN /\ Len(new) = 1
                        /\ new[1].kind = "Progress"
                        /\ new[1].job_id = tasks[t].job_id
                        /\ new[1].val.den > 0
                        /\ IsPercentOf(new[1].val, line.value, d)
                        /\ 0 <= new[1].val.num
                        /\ new[1].val.num <= 100 * new[1].val.den
                   ELSE new = << >> ]_vars

\* With a duration of 3 s the reader has reported 1.5 s elapsed as 100/3 %
\* and then 7 s elapsed as 100 %.
C26_Witness ==
    /\ Len(tasks) = 1
    /\ tasks[1].duration = 3
    /\ tasks[1].cv_read = 2
    /\ tasks[1].cv_line = [key |-> "out_time_ms", value |-> 7000000]
    /\ job_updates = << Msg(1, "Progress", Frac(100, 3)), Msg(1, "Progress", P100) >>

\* C27: SubmitUrl with a non-empty input buffer appends exactly one job,
\* with an id no stored job has, the buffer's text as url, status Queued,
\* progress 0 and no title, speed, eta, error or paths; the jobs already
\* stored and selected_index stay as they were and the input buffer becomes
\* empty.  SubmitUrl with an empty input buffer changes nothing.
C27_SubmitAppendsQueued ==
    [][ SubmitUrl =>
          IF input_buffer # << >>
          THEN /\ Len(jobs') = Len(jobs) + 1
               /\ SubSeq(jobs', 1, Len(jobs)) = jobs
               /\ LET job == jobs'[Len(jobs')]
                  IN  /\ job.id \notin JobIds(jobs)
                      /\ job.url = input_buffer
                      /\ job.status = "Queued"
                      /\ job.progress = P0
                      /\ job.title = None
                      /\ job.speed = None
                      /\ job.eta = None
                      /\ job.error = None
                      /\ job.output_path = None
                      /\ job.temp_path = None
               /\ selected_index' = selected_index
               /\ input_buffer' = << >>
          ELSE UNCHANGED store ]_vars

\* A fourth job was submitted behind three stored ones, the last of which
\* is selected: it is Queued with nothing else set, and the buffer is empty.
C27_Witness ==
    /\ Len(jobs) = StoreJobs + 1
    /\ jobs[Len(jobs)].id = StoreJobs + 1
    /\ jobs[Len(jobs)].url = <<"b">>
    /\ jobs[Len(jobs)].status = "Queued"
    /\ jobs[Len(jobs)].title = None
    /\ jobs[1].status = "Failed"
    /\ selected_index = StoreJobs - 1
    /\ input_buffer = << >>

\* C28: in every reachable state the four aggregate counts add up to the
\* number of jobs: every job is counted by exactly one of active, queued,
\* completed and failed.
C28_CountsPartition ==
    active_jobs_count + queued_jobs_count + completed_jobs_count
        + failed_jobs_count = Len(jobs)

\* Two jobs in different classes: one is converting, the other has failed.
C28_Witness ==
    /\ Len(jobs) = 2
    /\ jobs[1].status = "Converting"
    /\ jobs[2].status = "Failed"
    /\ active_jobs_count = 1
    /\ failed_jobs_count = 1

\* C29: the fetcher is launched with a format expression of the shape
\* bestvideo+bestaudio/best in which the selectors 1080p, 720p and 480p cap
\* the height of the video and of the fallback at 1080, 720 and 480, and
\* "best" and every other selector leave both uncapped, giving one and the
\* same expression.
HeightCap(quality) ==
    CASE quality = "1080p" -> Some(1080)
      [] quality = "720p" -> Some(720)
      [] quality = "480p" -> Some(480)
      [] OTHER -> None

Launched(t) == tasks[t].format # None

C29_QualityToFormat ==
    \A t \in Tasks : Launched(t) =>
        LET format == tasks[t].format[1]
            cap == HeightCap(tasks[t].quality)
        IN  /\ tasks[t].quality = selected_quality
            /\ format.video = [name |-> "bestvideo", cap |-> cap]
            /\ format.audio = [name |-> "bestaudio", cap |-> None]
            /\ format.fallback = [name |-> "best", cap |-> cap]
            /\ tasks[t].quality \notin {"1080p", "720p", "480p"} =>
                  /\ format.video.cap = None
                  /\ format.fallback.cap = None

\* A fetcher launched under the selector "1440p", which the downloader does
\* not know, runs with the uncapped expression.
C29_Witness ==
    /\ selected_quality = "1440p"
    /\ \E t \in Tasks :
          /\ tasks[t].pc = "fetching"
          /\ tasks[t].quality = "1440p"
          /\ Launched(t)
          /\ tasks[t].format[1].video.cap = None
          /\ tasks[t].format[1].fallback.cap = None

=============================================================================
